---- MODULE Spec2Model ----
(***************************************************************************)
(* The mock rating engine: a single fetch(request) handler that validates  *)
(* a quote request, prices it and answers with a quote or an error.        *)
(*                                                                         *)
(* Representation.                                                         *)
(*  - A JavaScript string is a sequence of characters, so that             *)
(*    toUpperCase / toLowerCase / substr / toString(36) are computed; a    *)
(*    character is a one-character string, or the name of its code point   *)
(*    ("U+0131") when it lies beyond Latin-1.                              *)
(*  - A JSON value is a record tagged by t (its JavaScript typeof class).  *)
(*  - A JavaScript number that takes part in arithmetic is an IEEE-754     *)
(*    double [m, e] of value m * 2^e, m a natural number of at most 53     *)
(*    bits kept as little-endian limbs in base 2^14 (TLC integers are 32   *)
(*    bits wide); products are rounded to nearest, ties to even, as the    *)
(*    hardware does.                                                       *)
(*  - A JSON number is n * 2^e: e is 0 for the numbers of everyday size    *)
(*    (|n| < 2^31), and positive for the few near the top of the double    *)
(*    range, where the price overflows.                                    *)
(*  - premium, the double Math.round(x) / 100, is kept as the JSON number  *)
(*    Math.round(x), the premium in hundredths (cents); it is the JSON     *)
(*    null when x is infinite, as JSON.stringify writes it.                *)
(***************************************************************************)
EXTENDS Integers, Sequences, FiniteSets, TLC

(***************************************************************************)
(* Natural numbers wider than 32 bits: little-endian limbs in base 2^14,   *)
(* so that a column of four limb products stays below 2^31.                *)
(***************************************************************************)
LimbBits == 14
LimbBase == 16384

Pow2(k) == 2 ^ k

RECURSIVE Norm(_)
Norm(a) == IF a = <<>> THEN <<>>
           ELSE IF a[Len(a)] = 0 THEN Norm(SubSeq(a, 1, Len(a) - 1))
           ELSE a

RECURSIVE FromInt(_)
FromInt(n) == IF n = 0 THEN <<>>
              ELSE <<n % LimbBase>> \o FromInt(n \div LimbBase)

RECURSIVE ToInt(_)
ToInt(a) == IF a = <<>> THEN 0 ELSE Head(a) + LimbBase * ToInt(Tail(a))

\* Limbs from columns that may exceed the base: carries are propagated.
RECURSIVE Carry(_, _)
Carry(cols, carry) ==
    IF cols = <<>> THEN FromInt(carry)
    ELSE LET cur == Head(cols) + carry
         IN  <<cur % LimbBase>> \o Carry(Tail(cols), cur \div LimbBase)

Limb(a, i) == IF i >= 1 /\ i <= Len(a) THEN a[i] ELSE 0

MulSmall(a, d) == Norm(Carry([i \in 1..Len(a) |-> a[i] * d], 0))

Add(a, b) ==
    LET n == IF Len(a) > Len(b) THEN Len(a) ELSE Len(b)
    IN  Norm(Carry([i \in 1..n |-> Limb(a, i) + Limb(b, i)], 0))

\* a * b for a of at most four limbs (a mantissa): column k is the sum of the
\* limb products a[i] * b[k + 1 - i].
Mul(a, b) ==
    IF a = <<>> \/ b = <<>> THEN <<>>
    ELSE Norm(Carry([k \in 1..(Len(a) + Len(b) - 1) |->
                        Limb(a, 1) * Limb(b, k) + Limb(a, 2) * Limb(b, k - 1)
                          + Limb(a, 3) * Limb(b, k - 2) + Limb(a, 4) * Limb(b, k - 3)],
                    0))

\* [q, r]: quotient and remainder of a by the small divisor d (d < 2^16).
RECURSIVE DivSmall(_, _)
DivSmall(a, d) ==
    IF a = <<>> THEN [q |-> <<>>, r |-> 0]
    ELSE LET hi  == DivSmall(Tail(a), d)
             cur == hi.r * LimbBase + Head(a)
         IN  [q |-> <<cur \div d>> \o hi.q, r |-> cur % d]

ShiftLeft(a, k) ==
    IF a = <<>> THEN <<>>
    ELSE [i \in 1..(k \div LimbBits) |-> 0] \o MulSmall(a, Pow2(k % LimbBits))

ShiftRight(a, k) ==
    LET drop == k \div LimbBits
        bits == k % LimbBits
    IN  IF drop >= Len(a) THEN <<>>
        ELSE Norm([i \in 1..(Len(a) - drop) |->
                     (a[i + drop] \div Pow2(bits))
                       + (Limb(a, i + drop + 1) % Pow2(bits)) * Pow2(LimbBits - bits)])

TestBit(a, k) ==
    k >= 0 /\ (Limb(a, (k \div LimbBits) + 1) \div Pow2(k % LimbBits)) % 2 = 1

\* TRUE iff the k low bits of a are all zero.
LowZero(a, k) ==
    LET whole == k \div LimbBits
    IN  /\ \A i \in 1..Len(a) : i <= whole => a[i] = 0
        /\ whole < Len(a) => a[whole + 1] % Pow2(k % LimbBits) = 0

RECURSIVE IntBitLen(_)
IntBitLen(n) == IF n = 0 THEN 0 ELSE 1 + IntBitLen(n \div 2)

BitLen(a) == IF a = <<>> THEN 0
             ELSE (Len(a) - 1) * LimbBits + IntBitLen(a[Len(a)])

(***************************************************************************)
(* IEEE-754 binary64, non-negative values: [m, e] stands for m * 2^e with  *)
(* m <= 2^53 (not necessarily normalised; rounding up the largest 53-bit   *)
(* mantissa gives 2^53); a value of 2^1024 or more is Infinity. A value    *)
(* below 2^-1022 (a subnormal) is a multiple of 2^-1074, with fewer bits.  *)
(***************************************************************************)
MantissaBits == 53
MaxExponent  == 1024
MinExponent  == -1074    \* 2^-1074 is the smallest positive double

DZero     == [m |-> <<>>, e |-> 0]
DInfinity == [m |-> <<1>>, e |-> MaxExponent]

\* (p + f) * 2^e, with 0 <= f < 1 and sticky <=> f > 0, rounded to 53 bits,
\* or to a multiple of 2^-1074 where that is coarser, to nearest, ties to
\* even.
Round53(p, e, sticky) ==
    LET len  == BitLen(p)
        over == len - MantissaBits
        s    == IF MinExponent - e > over THEN MinExponent - e ELSE over
    IN  IF s <= 0 THEN [m |-> p, e |-> e]
        ELSE LET q   == ShiftRight(p, s)
                 rb  == TestBit(p, s - 1)
                 st  == sticky \/ ~LowZero(p, s - 1)
                 up  == rb /\ (st \/ TestBit(q, 0))
             IN  [m |-> IF up THEN Add(q, <<1>>) ELSE q, e |-> e + s]

\* The double a decimal literal num/den denotes (den a power of ten < 2^16).
GuardBits == 70

DoubleOf(num, den) ==
    IF num = 0 THEN DZero
    ELSE LET d == DivSmall(ShiftLeft(FromInt(num), GuardBits), den)
         IN  Round53(Norm(d.q), -GuardBits, d.r # 0)

\* The double of a whole number 0 <= n < 2^31: exact.
IntDouble(n) == [m |-> FromInt(n), e |-> 0]

\* x >= 2^1024; a mantissa has at most MantissaBits + 1 bits.
IsInfinite(x) ==
    /\ x.m # <<>>
    /\ x.e + MantissaBits + 1 > MaxExponent
    /\ BitLen(x.m) + x.e > MaxExponent

\* The double product x * y of two doubles neither of which is zero when the
\* other is infinite: a product that rounds to nothing is 0.
DMul(x, y) ==
    IF x.m = <<>> \/ y.m = <<>> THEN DZero
    ELSE IF IsInfinite(x) \/ IsInfinite(y) THEN DInfinity
    ELSE LET z == Round53(Mul(x.m, y.m), x.e + y.e, FALSE)
         IN  IF z.m = <<>> THEN DZero
             ELSE IF IsInfinite(z) THEN DInfinity ELSE z

\* Math.round(x) for x >= 0: floor(x + 0.5), computed exactly.
MathRound(x) ==
    IF x.m = <<>> THEN 0
    ELSE IF x.e >= 0 THEN ToInt(ShiftLeft(x.m, x.e))
    ELSE ToInt(ShiftRight(x.m, -x.e)) + (IF TestBit(x.m, -x.e - 1) THEN 1 ELSE 0)


(***************************************************************************)
(* JavaScript strings: sequences of characters.                            *)
(***************************************************************************)
LowerChars == <<"a","b","c","d","e","f","g","h","i","j","k","l","m",
                "n","o","p","q","r","s","t","u","v","w","x","y","z">>
UpperChars == <<"A","B","C","D","E","F","G","H","I","J","K","L","M",
                "N","O","P","Q","R","S","T","U","V","W","X","Y","Z">>
DigitChars == <<"0","1","2","3","4","5","6","7","8","9">>

Letters == 1..Len(LowerChars)

\* The letters of Latin-1 that have both cases (U+00E0..U+00FE, U+00C0..U+00DE).
Latin1Lower == <<"à","á","â","ã","ä","å","æ","ç","è","é","ê","ë","ì","í","î",
                 "ï","ð","ñ","ò","ó","ô","õ","ö","ø","ù","ú","û","ü","ý","þ">>
Latin1Upper == <<"À","Á","Â","Ã","Ä","Å","Æ","Ç","È","É","Ê","Ë","Ì","Í","Î",
                 "Ï","Ð","Ñ","Ò","Ó","Ô","Õ","Ö","Ø","Ù","Ú","Û","Ü","Ý","Þ">>

Latin1Letters == 1..Len(Latin1Lower)

\* Characters whose other case is not the letter at the same place of the
\* tables above. A character beyond Latin-1 is written as its code point.
DotlessI      == "U+0131"    \* upper case I
LongS         == "U+017F"    \* upper case S
SharpS        == "ß"         \* U+00DF, upper case SS
CapitalSharpS == "U+1E9E"    \* lower case U+00DF
YDiaeresis    == "ÿ"         \* U+00FF, upper case U+0178
CapitalYDiaeresis == "U+0178"
MicroSign     == "µ"         \* U+00B5, upper case U+039C (Greek capital mu)
CapitalMu     == "U+039C"    \* lower case U+03BC
SmallMu       == "U+03BC"
LigatureFi    == "U+FB01"    \* upper case FI
LigatureFl    == "U+FB02"    \* upper case FL
DottedI       == "U+0130"    \* lower case i followed by U+0307
CombiningDot  == "U+0307"
KelvinSign    == "U+212A"    \* lower case k
AngstromSign  == "U+212B"    \* lower case U+00E5

\* The full upper-case mapping of each character that has one, and the
\* lower-case mapping: a string, since a mapping may give two characters.
\* The characters of the model are ASCII, Latin-1 and those named above; the
\* other characters of the model (digits, punctuation, the letters that are
\* already in the case asked for) map to themselves.
UpperOf ==
    [c \in {LowerChars[i] : i \in Letters} |->
        <<UpperChars[CHOOSE i \in Letters : LowerChars[i] = c]>>]
      @@ [c \in {Latin1Lower[i] : i \in Latin1Letters} |->
            <<Latin1Upper[CHOOSE i \in Latin1Letters : Latin1Lower[i] = c]>>]
      @@ (DotlessI :> <<"I">>) @@ (LongS :> <<"S">>) @@ (SharpS :> <<"S","S">>)
      @@ (YDiaeresis :> <<CapitalYDiaeresis>>) @@ (MicroSign :> <<CapitalMu>>)
      @@ (SmallMu :> <<CapitalMu>>)
      @@ (LigatureFi :> <<"F","I">>) @@ (LigatureFl :> <<"F","L">>)
LowerOf ==
    [c \in {UpperChars[i] : i \in Letters} |->
        <<LowerChars[CHOOSE i \in Letters : UpperChars[i] = c]>>]
      @@ [c \in {Latin1Upper[i] : i \in Latin1Letters} |->
            <<Latin1Lower[CHOOSE i \in Latin1Letters : Latin1Upper[i] = c]>>]
      @@ (DottedI :> <<"i", CombiningDot>>) @@ (KelvinSign :> <<"k">>)
      @@ (AngstromSign :> <<"å">>) @@ (CapitalSharpS :> <<SharpS>>)
      @@ (CapitalYDiaeresis :> <<YDiaeresis>>) @@ (CapitalMu :> <<SmallMu>>)

ToUpperChar(c) == IF c \in DOMAIN UpperOf THEN UpperOf[c] ELSE <<c>>
ToLowerChar(c) == IF c \in DOMAIN LowerOf THEN LowerOf[c] ELSE <<c>>

\* String.prototype.toUpperCase / toLowerCase
RECURSIVE ToUpperCase(_)
ToUpperCase(s) ==
    IF s = <<>> THEN <<>> ELSE ToUpperChar(Head(s)) \o ToUpperCase(Tail(s))

RECURSIVE ToLowerCase(_)
ToLowerCase(s) ==
    IF s = <<>> THEN <<>> ELSE ToLowerChar(Head(s)) \o ToLowerCase(Tail(s))

\* String.prototype.substr(start, length), start >= 0
Substr(s, start, length) ==
    SubSeq(s, start + 1, IF start + length < Len(s) THEN start + length ELSE Len(s))

\* The decimal digits of a natural number: `${n}`.
RECURSIVE ToDecimal(_)
ToDecimal(n) ==
    IF n < 10 THEN <<DigitChars[n + 1]>>
    ELSE ToDecimal(n \div 10) \o <<DigitChars[(n % 10) + 1]>>

(***************************************************************************)
(* Math.random() returns a double in [0, 1). A draw is the numerator r of  *)
(* the dyadic fraction r / 2^RandomBits.                                   *)
(***************************************************************************)
RandomBits == 12
RandomUnit == Pow2(RandomBits)

Digits36 == DigitChars \o LowerChars

\* The base-36 digits of the fraction f / RandomUnit, until nothing is left.
RECURSIVE FractionDigits36(_)
FractionDigits36(f) ==
    IF f = 0 THEN <<>>
    ELSE LET x == f * 36
         IN  <<Digits36[(x \div RandomUnit) + 1]>> \o FractionDigits36(x % RandomUnit)

\* Number.prototype.toString(36) of the draw r / RandomUnit
ToString36(r) ==
    IF r = 0 THEN <<"0">> ELSE <<"0", ".">> \o FractionDigits36(r)

(***************************************************************************)
(* JSON values, as JavaScript sees them after request.json().              *)
(***************************************************************************)
Undefined == [t |-> "undefined"]
JNull     == [t |-> "null"]
JBool(b)  == [t |-> "boolean", b |-> b]
JNum(n)   == [t |-> "number", n |-> n, e |-> 0]
\* the number n * 2^e, as its decimal literal parses
JNumScaled(n, e) == [t |-> "number", n |-> n, e |-> e]
JStr(s)   == [t |-> "string", s |-> s]
JArr(a)   == [t |-> "array", a |-> a]
JObj(revenue, state, business) ==
    [t |-> "object", revenue |-> revenue, state |-> state, business |-> business]

\* The double request.json() makes of the number literal n * 2^e, |n| < 2^31,
\* written again as n * 2^e: a literal of magnitude 2^1024 or more (such as
\* 1e999) parses to Infinity or -Infinity (inf, with n its sign), one between
\* the multiples of 2^-1074 to the nearest of them, ties to even (so 1e-400
\* parses to 0). Every other literal of the model is a double.
ParseNumber(v) ==
    LET mag  == IF v.n < 0 THEN -v.n ELSE v.n
        sign == IF v.n < 0 THEN -1 ELSE 1
        k    == MinExponent - v.e
    IN  IF v.n = 0 THEN [inf |-> FALSE, n |-> 0, e |-> 0]
        ELSE IF IsInfinite([m |-> FromInt(mag), e |-> v.e])
        THEN [inf |-> TRUE, n |-> sign, e |-> 0]
        ELSE IF k <= 0 THEN [inf |-> FALSE, n |-> v.n, e |-> v.e]
        ELSE IF k > 31 THEN [inf |-> FALSE, n |-> 0, e |-> 0]
        ELSE LET half == Pow2(k - 1)
                 q    == (mag \div half) \div 2
                 r    == mag - q * half * 2
                 up   == r > half \/ (r = half /\ q % 2 = 1)
                 m    == IF up THEN q + 1 ELSE q
             IN  IF m = 0 THEN [inf |-> FALSE, n |-> 0, e |-> 0]
                 ELSE [inf |-> FALSE, n |-> sign * m, e |-> MinExponent]

\* A body text that is not JSON: request.json() rejects.
Unparsable == [t |-> "unparsable"]

\* typeof v
TypeOf(v) ==
    IF v.t \in {"null", "array", "object"} THEN "object" ELSE v.t

\* ToBoolean(v), as in !v
Truthy(v) ==
    CASE v.t = "undefined" -> FALSE
      [] v.t = "null"      -> FALSE
      [] v.t = "boolean"   -> v.b
      [] v.t = "number"    -> ParseNumber(v).n # 0
      [] v.t = "string"    -> v.s # <<>>
      [] OTHER             -> TRUE

\* const { revenue, state, business } = body, for a body that is not null
Property(body, name) ==
    IF body.t = "object" THEN body[name] ELSE Undefined


(***************************************************************************)
(* The handler's tables and checks.                                        *)
(***************************************************************************)
CA == <<"C","A">>
TX == <<"T","X">>
NY == <<"N","Y">>
WI == <<"W","I">>
OH == <<"O","H">>
IL == <<"I","L">>
NV == <<"N","V">>
Retail        == <<"r","e","t","a","i","l">>
Restaurant    == <<"r","e","s","t","a","u","r","a","n","t">>
Professional  == <<"p","r","o","f","e","s","s","i","o","n","a","l">>
Manufacturing == <<"m","a","n","u","f","a","c","t","u","r","i","n","g">>

\* A list of valid states with one that has no multiplier.
validStatesWithFlorida == {CA, TX, NY, WI, OH, IL, NV, <<"F","L">>}

validStates == {CA, TX, NY, WI, OH, IL, NV}
validBusinessTypes == {Retail, Restaurant, Professional, Manufacturing}

\* let baseRate = 0.025
baseRate == DoubleOf(25, 1000)

businessMultipliers ==
    (Retail :> DoubleOf(10, 10)) @@ (Restaurant :> DoubleOf(13, 10)) @@
    (Professional :> DoubleOf(8, 10)) @@ (Manufacturing :> DoubleOf(15, 10))

stateMultipliers ==
    (CA :> DoubleOf(12, 10)) @@ (TX :> DoubleOf(10, 10)) @@ (NY :> DoubleOf(13, 10)) @@
    (WI :> DoubleOf(9, 10)) @@ (OH :> DoubleOf(85, 100)) @@ (IL :> DoubleOf(11, 10)) @@
    (NV :> DoubleOf(115, 100))

\* A presence check that tests revenue for falsiness: !revenue || !state || !business
MissingFieldsFalsy(revenue, state, business) ==
    ~Truthy(revenue) \/ ~Truthy(state) \/ ~Truthy(business)

\* A presence check with loose equality: revenue == undefined || !state || !business
MissingFieldsNullish(revenue, state, business) ==
    revenue \in {Undefined, JNull} \/ ~Truthy(state) \/ ~Truthy(business)

\* revenue === undefined || !state || !business
MissingFields(revenue, state, business) ==
    revenue = Undefined \/ ~Truthy(state) \/ ~Truthy(business)

\* A revenue check that rejects zero: typeof revenue !== 'number' || revenue <= 0
InvalidRevenueNonPositive(revenue) ==
    TypeOf(revenue) # "number" \/ ParseNumber(revenue).n <= 0

\* typeof revenue !== 'number' || revenue < 0
InvalidRevenue(revenue) ==
    TypeOf(revenue) # "number" \/ ParseNumber(revenue).n < 0

\* v.toUpperCase() / v.toLowerCase() is a TypeError unless v is a string.
HasStringMethods(v) == v.t = "string"

\* A state check that forgets to normalise: !validStates.includes(state)
InvalidStateCaseSensitive(state) == state.s \notin validStates

\* !validStates.includes(state.toUpperCase())
InvalidState(state) == ToUpperCase(state.s) \notin validStates

\* !validBusinessTypes.includes(business.toLowerCase())
InvalidBusiness(business) == ToLowerCase(business.s) \notin validBusinessTypes

\* The double a JSON number v >= 0 parses to, as [m, e].
Double(p) == IF p.inf THEN DInfinity ELSE [m |-> FromInt(p.n), e |-> p.e]

NumberDouble(v) == Double(ParseNumber(v))

\* Math.round(x) / 100 as JSON.stringify writes it, in hundredths: null when
\* x is infinite. A finite x is below 2^31 for the revenues of the model.
Stringify(x) == IF IsInfinite(x) THEN JNull ELSE JNum(MathRound(x))

\* Math.round(revenue * baseRate * businessMultiplier * stateMultiplier * 100),
\* the premium in hundredths, as the response body carries it.
Premium(revenue, state, business) ==
    LET businessMultiplier == businessMultipliers[ToLowerCase(business.s)]
        stateMultiplier    == stateMultipliers[ToUpperCase(state.s)]
    IN  Stringify(DMul(DMul(DMul(DMul(NumberDouble(revenue), baseRate),
                                      businessMultiplier),
                                 stateMultiplier),
                            IntDouble(100)))

\* `Q-${Date.now()}-${Math.random().toString(36).substr(2, 5).toUpperCase()}`
QuoteId(t, r) ==
    <<"Q", "-">> \o ToDecimal(t) \o <<"-">> \o ToUpperCase(Substr(ToString36(r), 2, 5))

Pad(digits, width) == [i \in 1..(width - Len(digits)) |-> "0"] \o digits

\* new Date(t).toISOString(), for t within the first minute of the epoch
ToISOString(t) ==
    <<"1","9","7","0","-","0","1","-","0","1","T","0","0",":","0","0",":">>
      \o Pad(ToDecimal(t \div 1000), 2) \o <<".">> \o Pad(ToDecimal(t % 1000), 3) \o <<"Z">>

(***************************************************************************)
(* Responses.                                                              *)
(***************************************************************************)
JsonHeaders ==
    ("Content-Type" :> "application/json") @@ ("Access-Control-Allow-Origin" :> "*")

\* Preflight headers without the origin header.
PreflightHeadersNoOrigin ==
    ("Access-Control-Allow-Methods" :> "GET, POST, OPTIONS") @@
    ("Access-Control-Allow-Headers" :> "Content-Type")

PreflightHeaders ==
    ("Access-Control-Allow-Origin" :> "*") @@
    ("Access-Control-Allow-Methods" :> "GET, POST, OPTIONS") @@
    ("Access-Control-Allow-Headers" :> "Content-Type")

\* new Response(null, {headers}): status 200 by default, no body
NullBody == [kind |-> "null"]
\* new Response(JSON.stringify(fields), ...)
JsonBody(fields) == [kind |-> "json", json |-> fields]

PreflightResponse ==
    [status |-> 200, headers |-> PreflightHeaders, body |-> NullBody]

\* A 405 without a body: new Response(null, {status: 405, ...})
MethodNotAllowedNoBody ==
    [status |-> 405, headers |-> JsonHeaders, body |-> [kind |-> "null"]]

\* The wrong-method answer sent with the status of the validation errors.
MethodNotAllowedAs400 ==
    [status |-> 400, headers |-> JsonHeaders,
     body |-> [kind |-> "json", json |-> [error |-> "Method not allowed"]]]

MethodNotAllowedResponse ==
    [status |-> 405, headers |-> JsonHeaders,
     body |-> JsonBody([error |-> "Method not allowed"])]

ErrorResponse(error, message) ==
    [status |-> 400, headers |-> JsonHeaders,
     body |-> JsonBody([error |-> error, message |-> message])]

MissingFieldsResponse ==
    ErrorResponse("Missing required fields", "Revenue, state, and business are required")
InvalidRevenueResponse ==
    ErrorResponse("Invalid revenue", "Revenue must be a positive number")
InvalidStateResponse ==
    ErrorResponse("Invalid state", "State must be one of: CA, TX, NY, WI, OH, IL, NV")
\* The business rejection sent with the state check's error.
InvalidBusinessAsInvalidState ==
    ErrorResponse("Invalid state",
                  "Business must be one of: retail, restaurant, professional, manufacturing")

InvalidBusinessResponse ==
    ErrorResponse("Invalid business type",
                  "Business must be one of: retail, restaurant, professional, manufacturing")
\* A catch block that answers 500.
InvalidJsonAs500 ==
    [status |-> 500, headers |-> JsonHeaders,
     body |-> JsonBody([error |-> "Invalid JSON", message |-> "Request body must be valid JSON"])]

\* the catch block
InvalidJsonResponse ==
    ErrorResponse("Invalid JSON", "Request body must be valid JSON")

\* A quote whose price drifts with the clock.
QuoteResponseClockPriced(revenue, state, business, t, u, r) ==
    [status |-> 200, headers |-> JsonHeaders,
     body |-> [kind |-> "json",
               json |-> [premium      |-> LET p == Premium(revenue, state, business)
                                                IN  IF p = JNull THEN p ELSE JNum(p.n + t),
                         quoteId      |-> QuoteId(t, r),
                         calculatedAt |-> ToISOString(u)]]]

\* The quote. The clock is read twice: Date.now() gives t for the quote id,
\* then new Date() gives u for calculatedAt; r is the random draw.
QuoteResponse(revenue, state, business, t, u, r) ==
    [status |-> 200, headers |-> JsonHeaders,
     body |-> JsonBody([premium      |-> Premium(revenue, state, business),
                        quoteId      |-> QuoteId(t, r),
                        calculatedAt |-> ToISOString(u)])]

\* Validation with the business check ahead of the state check.
ValidateBusinessFirst(revenue, state, business) ==
    IF MissingFields(revenue, state, business) THEN "missing"
    ELSE IF InvalidRevenue(revenue) THEN "revenue"
    ELSE IF ~HasStringMethods(business) THEN "throw"
    ELSE IF InvalidBusiness(business) THEN "business"
    ELSE IF ~HasStringMethods(state) THEN "throw"
    ELSE IF InvalidState(state) THEN "state"
    ELSE ""

\* Validation with the revenue check after the state and business checks.
ValidateRevenueLast(revenue, state, business) ==
    IF MissingFields(revenue, state, business) THEN "missing"
    ELSE IF ~HasStringMethods(state) THEN "throw"
    ELSE IF InvalidState(state) THEN "state"
    ELSE IF ~HasStringMethods(business) THEN "throw"
    ELSE IF InvalidBusiness(business) THEN "business"
    ELSE IF InvalidRevenue(revenue) THEN "revenue"
    ELSE ""

\* The first validation that rejects, "" when none does, "throw" when the
\* check itself raises a TypeError.
Validate(revenue, state, business) ==
    IF MissingFields(revenue, state, business) THEN "missing"
    ELSE IF InvalidRevenue(revenue) THEN "revenue"
    ELSE IF ~HasStringMethods(state) THEN "throw"
    ELSE IF InvalidState(state) THEN "state"
    ELSE IF ~HasStringMethods(business) THEN "throw"
    ELSE IF InvalidBusiness(business) THEN "business"
    ELSE ""

\* A handler that reads an unparsable body as the empty object:
\* await request.json().catch(() => ({}))
AfterBodyLenientParse(body, t, u, r) ==
    IF body = Unparsable THEN MissingFieldsResponse
    ELSE IF body = JNull THEN InvalidJsonResponse
    ELSE LET revenue  == Property(body, "revenue")
             state    == Property(body, "state")
             business == Property(body, "business")
             v        == Validate(revenue, state, business)
         IN  CASE v = "missing"  -> MissingFieldsResponse
               [] v = "revenue"  -> InvalidRevenueResponse
               [] v = "state"    -> InvalidStateResponse
               [] v = "business" -> InvalidBusinessResponse
               [] v = "throw"    -> InvalidJsonResponse
               [] OTHER          -> QuoteResponse(revenue, state, business, t, u, r)

\* The try block after `await request.json()` has settled with `body`, and its
\* catch: what the handler returns when the clock reads t and then u, with
\* random draw r.
AfterBody(body, t, u, r) ==
    IF body = Unparsable THEN InvalidJsonResponse     \* request.json() rejects
    ELSE IF body = JNull THEN InvalidJsonResponse     \* destructuring null throws
    ELSE LET revenue  == Property(body, "revenue")
             state    == Property(body, "state")
             business == Property(body, "business")
             v        == Validate(revenue, state, business)
         IN  CASE v = "missing"  -> MissingFieldsResponse
               [] v = "revenue"  -> InvalidRevenueResponse
               [] v = "state"    -> InvalidStateResponse
               [] v = "business" -> InvalidBusinessResponse
               [] v = "throw"    -> InvalidJsonResponse
               [] OTHER          -> QuoteResponse(revenue, state, business, t, u, r)


(***************************************************************************)
(* The server: requests arrive, each is handled by its own invocation of   *)
(* fetch, which suspends once, at `await request.json()`.                  *)
(***************************************************************************)
MaxRequests == 2     \* invocations in flight at once
MaxClock    == 1     \* the last clock reading (milliseconds)
MaxRevenue  == 40    \* the whole-dollar revenues 0..MaxRevenue are all priced

Requests == 1..MaxRequests

Methods == {"POST", "GET", "PUT", "OPTIONS"}

\* The values Math.random() returns in the model: 0, one half and the largest
\* draw.
RandomDraws == {0, RandomUnit \div 2, RandomUnit - 1}

California == <<"C","a","l","i","f","o","r","n","i","a">>
Technology == <<"t","e","c","h","n","o","l","o","g","y">>
Fifty      == <<"5","0","0","0","0">>
\* Spellings with a letter beyond ASCII: IL and WI with a dotless i,
\* professional with two long s.
DotlessIL    == <<DotlessI, "l">>
DotlessWI    == <<"w", DotlessI>>
LongSProfessional == <<"p","r","o","f","e",LongS,LongS,"i","o","n","a","l">>

\* Field values a client may send.
RevenueInputs ==
    {Undefined, JNull, JBool(FALSE), JStr(Fifty), JStr(<<>>), JArr(<<>>),
     JNum(-5000), JNum(-1), JNum(0), JNum(5), JNum(50000)}

StateInputs ==
    {Undefined, JNull, JStr(<<>>), JNum(123), JNum(0), JBool(TRUE), JArr(<<JStr(CA)>>)}
      \cup {JStr(c) : c \in validStates}
      \cup {JStr(ToLowerCase(c)) : c \in validStates}
      \cup {JStr(<<"C","a">>), JStr(<<"Z","Z">>), JStr(<<"C">>), JStr(California)}
      \cup {JStr(DotlessIL), JStr(DotlessWI)}

BusinessInputs ==
    {Undefined, JNull, JStr(<<>>), JNum(123), JBool(TRUE)}
      \cup {JStr(b) : b \in validBusinessTypes}
      \cup {JStr(ToUpperCase(b)) : b \in validBusinessTypes}
      \cup {JStr(<<"R">> \o Tail(Retail)), JStr(Technology), JStr(LongSProfessional)}

\* The revenues of the repository's test data, besides 0..MaxRevenue.
TestRevenues == {100, 50000, 75000, 100000, 200000, 1000000}

\* Revenues near the top of the double range, which the revenue check accepts:
\* 3 * 2^1022 (1.348e308) and 7 * 2^1021 (1.573e308), both finite, and a
\* literal beyond the range (such as 1e999), which parses to Infinity.
LargeRevenues == {JNumScaled(3, 1022), JNumScaled(7, 1021), JNumScaled(3, 1023)}

\* Bodies of one request handled alone: every combination of the field
\* values, every priced revenue with every state and business type, and the
\* bodies that are not objects.
QuoteBodies ==
    {JObj(rv, st, bu) : rv \in RevenueInputs, st \in StateInputs, bu \in BusinessInputs}
      \cup {JObj(JNum(n), JStr(st), JStr(bu)) :
              n \in (0..MaxRevenue) \cup TestRevenues,
              st \in validStates, bu \in validBusinessTypes}
      \cup {JObj(rv, JStr(st), JStr(bu)) :
              rv \in LargeRevenues, st \in validStates, bu \in validBusinessTypes}
      \cup {Unparsable, JNull, JNum(7), JStr(CA), JArr(<<>>), JBool(TRUE)}

\* Bodies of the requests handled concurrently.
Bodies ==
    {Unparsable,
     JObj(JNum(50000), JStr(CA), JStr(Retail)),
     JObj(JNum(5), JStr(CA), JStr(Manufacturing)),
     JObj(JNum(-5000), JStr(<<"Z","Z">>), JStr(Retail))}

NoRequest  == [method |-> "", body |-> Undefined]
NoResponse == [status |-> 0, headers |-> JsonHeaders, body |-> NullBody]

(***************************************************************************)
(* The label registry: the label sets of the locales, and validateLocale,  *)
(* which reports the keys of the English set a locale's set lacks.         *)
(***************************************************************************)
enLabels ==
    ("customer_state" :> "Customer state") @@
    ("business_type" :> "Business type") @@
    ("annual_revenue" :> "Annual revenue") @@
    ("coverage_unavailable_notice" :> "Coverage unavailable notice") @@
    ("coverage_available_notice" :> "Coverage available notice") @@
    ("coverage_options" :> "Coverage options") @@
    ("coverage_none" :> "Coverage none") @@
    ("coverage_silver" :> "Coverage silver") @@
    ("coverage_gold" :> "Coverage gold") @@
    ("coverage_platinum" :> "Coverage platinum") @@
    ("submit_quote" :> "Submit quote") @@
    ("loading" :> "Loading") @@
    ("error_message" :> "Error message") @@
    ("quote_result" :> "Quote result") @@
    ("premium_amount" :> "Premium amount") @@
    ("quote_id" :> "Quote ID") @@
    ("quote_timestamp" :> "Quote timestamp")

esLabels ==
    ("customer_state" :> "Estado del cliente") @@
    ("business_type" :> "Tipo de negocio") @@
    ("annual_revenue" :> "Ingresos anuales") @@
    ("coverage_unavailable_notice" :> "Aviso de cobertura no disponible") @@
    ("coverage_available_notice" :> "Aviso de cobertura disponible") @@
    ("coverage_options" :> "Opciones de cobertura") @@
    ("coverage_none" :> "Sin cobertura") @@
    ("coverage_silver" :> "Cobertura plata") @@
    ("coverage_gold" :> "Cobertura oro") @@
    ("coverage_platinum" :> "Cobertura platino") @@
    ("submit_quote" :> "Enviar cotización") @@
    ("loading" :> "Cargando") @@
    ("error_message" :> "Mensaje de error") @@
    ("quote_result" :> "Resultado de cotización") @@
    ("premium_amount" :> "Monto de prima") @@
    ("quote_id" :> "ID de cotización") @@
    ("quote_timestamp" :> "Marca de tiempo de cotización")

\* Object.keys(enLabels), in the order of the file
LabelKeys ==
    <<"customer_state", "business_type", "annual_revenue",
      "coverage_unavailable_notice", "coverage_available_notice", "coverage_options",
      "coverage_none", "coverage_silver", "coverage_gold",
      "coverage_platinum", "submit_quote", "loading",
      "error_message", "quote_result", "premium_amount",
      "quote_id", "quote_timestamp">>

\* A label set with the keys ks deleted and the values of the keys bs emptied.
Edited(labels, ks, bs) ==
    [key \in (DOMAIN labels) \ ks |-> IF key \in bs THEN "" ELSE labels[key]]

MaxEdits == 1    \* keys deleted or emptied in the Spanish label set

\* The Spanish label sets validateLocale is run against: es.js as it is, and
\* es.js with up to MaxEdits keys deleted or emptied.
EsLabelSets ==
    LET few == {ks \in SUBSET DOMAIN esLabels : Cardinality(ks) <= MaxEdits}
    IN  {Edited(esLabels, ks, bs) :
            <<ks, bs>> \in {pair \in few \X few :
                              /\ pair[1] \cap pair[2] = {}
                              /\ Cardinality(pair[1]) + Cardinality(pair[2]) <= MaxEdits}}

\* The locale arguments: none, the two locales with a label set in several
\* spellings, and locales without one.
Locales ==
    {Undefined, JStr(<<"e","n">>), JStr(<<"e","s">>), JStr(<<"E","N">>), JStr(<<"E","s">>),
     JStr(<<"f","r">>), JStr(<<"d","e">>), JStr(<<>>)}

NoValidation == [locale |-> Undefined, valid |-> FALSE, missing |-> <<>>, called |-> FALSE]

VARIABLES
    now,    \* the clock: Date.now()
    pc,     \* pc[i]: "idle", "reading" (suspended in request.json()) or "done"
    req,    \* req[i]: the request invocation i handles
    resp,   \* resp[i]: the response invocation i returned
    translation,   \* the Spanish label set, as es.js holds it
    validation     \* what the last call of validateLocale returned

handlerVars == <<now, pc, req, resp>>
labelVars   == <<translation, validation>>
vars == <<now, pc, req, resp, translation, validation>>

Init ==
    /\ now = 0
    /\ pc = [i \in Requests |-> "idle"]
    /\ req = [i \in Requests |-> NoRequest]
    /\ resp = [i \in Requests |-> NoResponse]
    /\ translation = esLabels
    /\ validation = NoValidation

\* fetch(request) up to its first suspension: the preflight and method checks.
Receive(i, method, body) ==
    /\ pc[i] = "idle"
    /\ req' = [req EXCEPT ![i] = [method |-> method, body |-> body]]
    /\ IF method = "OPTIONS"
       THEN /\ resp' = [resp EXCEPT ![i] = PreflightResponse]
            /\ pc' = [pc EXCEPT ![i] = "done"]
       ELSE IF method # "POST"
       THEN /\ resp' = [resp EXCEPT ![i] = MethodNotAllowedResponse]
            /\ pc' = [pc EXCEPT ![i] = "done"]
       ELSE /\ resp' = resp
            /\ pc' = [pc EXCEPT ![i] = "reading"]
    /\ UNCHANGED <<now, labelVars>>

\* A handler that keeps the parsed body in a variable of the module, shared by
\* the invocations in flight: the body validated is that of the lowest one.
ResumeSharedBody(i, r, d) ==
    /\ pc[i] = "reading"
    /\ now + d <= MaxClock
    /\ LET shared == CHOOSE j \in Requests :
                        /\ pc[j] = "reading"
                        /\ \A k \in Requests : pc[k] = "reading" => j <= k
       IN  resp' = [resp EXCEPT ![i] = AfterBody(req[shared].body, now, now + d, r)]
    /\ pc' = [pc EXCEPT ![i] = "done"]
    /\ now' = now + d
    /\ UNCHANGED <<req, labelVars>>

\* request.json() settles and the handler runs to its return without
\* suspending again; r is the value Math.random() returns if it is called, and
\* d the milliseconds that pass while it runs, between its two readings of
\* the clock.
Resume(i, r, d) ==
    /\ pc[i] = "reading"
    /\ now + d <= MaxClock
    /\ resp' = [resp EXCEPT ![i] = AfterBody(req[i].body, now, now + d, r)]
    /\ pc' = [pc EXCEPT ![i] = "done"]
    /\ now' = now + d
    /\ UNCHANGED <<req, labelVars>>

\* The response has been delivered; the invocation is gone.
Retire(i) ==
    /\ pc[i] = "done"
    /\ pc' = [pc EXCEPT ![i] = "idle"]
    /\ req' = [req EXCEPT ![i] = NoRequest]
    /\ resp' = [resp EXCEPT ![i] = NoResponse]
    /\ UNCHANGED <<now, labelVars>>

\* A millisecond passes.
Tick ==
    /\ now < MaxClock
    /\ now' = now + 1
    /\ UNCHANGED <<pc, req, resp, labelVars>>

Next ==
    \/ \E i \in Requests :
          /\ pc[i] = "idle"
          /\ \E method \in Methods, body \in Bodies : Receive(i, method, body)
    \/ \E i \in Requests :
          /\ pc[i] = "reading"
          /\ \E r \in RandomDraws, d \in 0..MaxClock : Resume(i, r, d)
    \/ \E i \in Requests : Retire(i)
    \/ Tick

Spec == Init /\ [][Next]_vars

\* One request at a time, of any method, with every body of QuoteBodies,
\* while the clock runs.
NextQuote ==
    \/ /\ pc[1] = "idle"
       /\ \E method \in Methods, body \in QuoteBodies : Receive(1, method, body)
    \/ \E r \in RandomDraws, d \in 0..MaxClock : Resume(1, r, d)
    \/ Retire(1)
    \/ Tick

SpecQuote == Init /\ [][NextQuote]_vars

\* A client that sends one request, awaits its answer, and then sends a
\* second request that differs from the first in one respect, to compare the
\* two answers.
MaxPairRevenue == 8    \* the whole-dollar revenues 0..MaxPairRevenue are compared

PairStates ==
    validStates \cup {ToLowerCase(CA), <<"C","a">>, <<"Z","Z">>, <<"z","z">>, DotlessIL}

PairBusinesses ==
    validBusinessTypes
      \cup {ToUpperCase(Retail), <<"R">> \o Tail(Retail), Technology, ToUpperCase(Technology)}
      \cup {ToUpperCase(Professional), LongSProfessional}

PairBodies ==
    {JObj(JNum(n), JStr(st), JStr(bu)) :
        n \in (0..MaxPairRevenue) \cup {50000, 100000, 1000000, -5000},
        st \in PairStates, bu \in PairBusinesses}
      \cup {JObj(rv, JStr(st), JStr(bu)) :
              rv \in LargeRevenues, st \in validStates, bu \in validBusinessTypes}

\* x < y for two doubles n * 2^e, or infinities of sign n; 2^31 and more is
\* beyond every n.
DoubleLess(x, y) ==
    LET d == y.e - x.e
    IN  IF x.inf \/ y.inf
        THEN IF x.inf /\ y.inf THEN x.n < y.n
             ELSE IF x.inf THEN x.n < 0
             ELSE y.n > 0
        ELSE IF x.n = 0 \/ y.n = 0 THEN x.n < y.n
        ELSE IF d >= 0
        THEN IF d <= 30 THEN x.n \div Pow2(d) < y.n
             ELSE y.n > 0
        ELSE IF -d <= 30 THEN x.n < -((-y.n) \div Pow2(-d))
             ELSE x.n < 0

\* a < b as JavaScript compares two JSON numbers: the doubles they parse to.
NumLess(a, b) == DoubleLess(ParseNumber(a), ParseNumber(b))

\* The forms of one letter: the character and its one-character upper-case
\* and lower-case mappings.
CaseForms(c) == {<<c>>, ToUpperChar(c), ToLowerChar(c)}

\* s and t spell the same letters, each in either case: place by place the
\* two characters share a form.
SameLetters(s, t) ==
    /\ Len(s) = Len(t)
    /\ \A i \in 1..Len(s) : CaseForms(s[i]) \cap CaseForms(t[i]) # {}

\* The draw of the two invocations, one that gives a full suffix.
PairDraws == {RandomUnit - 1}

\* The comparisons the tests make. b is a with OH for NY or NY for OH, or
\* with professional for manufacturing or the reverse, or with the letters of
\* state and business in another mix of cases, or, for a valid state and
\* business type, with a higher revenue.
Related(a, b) ==
    /\ a # b
    /\ \/ /\ a.revenue = b.revenue
          /\ \/ /\ a.business = b.business
                /\ {ToUpperCase(a.state.s), ToUpperCase(b.state.s)} = {NY, OH}
             \/ /\ a.state = b.state
                /\ {ToLowerCase(a.business.s), ToLowerCase(b.business.s)}
                      = {Manufacturing, Professional}
             \/ /\ SameLetters(a.state.s, b.state.s)
                /\ SameLetters(a.business.s, b.business.s)
       \/ /\ a.state = b.state
          /\ a.business = b.business
          /\ a.state.s \in validStates
          /\ a.business.s \in validBusinessTypes
          /\ NumLess(a.revenue, b.revenue)

NextPair ==
    \/ /\ pc[1] = "idle"
       /\ \E body \in PairBodies : Receive(1, "POST", body)
    \/ /\ pc[1] = "done" /\ pc[2] = "idle"
       /\ \E body \in {b \in PairBodies : Related(req[1].body, b)} :
            Receive(2, "POST", body)
    \/ \E i \in {1, 2}, r \in PairDraws, d \in 0..MaxClock : Resume(i, r, d)
    \/ Tick

SpecPair == Init /\ [][NextPair]_vars

\* Invocations that overlap: invocation 1 begins when no other is in flight,
\* and every other invocation begins while invocation 1 is suspended reading
\* its body, so any answered invocation was in flight together with
\* invocation 1 as long as that one has not retired.
NextOverlap ==
    \/ /\ \A j \in Requests : pc[j] = "idle"
       /\ \E body \in Bodies : Receive(1, "POST", body)
    \/ \E i \in Requests \ {1} :
          /\ pc[i] = "idle" /\ pc[1] = "reading"
          /\ \E body \in Bodies : Receive(i, "POST", body)
    \/ \E i \in Requests :
          /\ pc[i] = "reading"
          /\ \E r \in RandomDraws, d \in 0..MaxClock : Resume(i, r, d)
    \/ \E i \in Requests : Retire(i)
    \/ Tick

SpecOverlap == Init /\ [][NextOverlap]_vars

\* getLabels(locale = 'en'): an unknown locale falls back to English.
getLabels(locale) ==
    LET l == IF locale = Undefined THEN <<"e","n">> ELSE ToLowerCase(locale.s)
    IN  CASE l = <<"e","n">> -> enLabels
          [] l = <<"e","s">> -> translation
          [] OTHER           -> enLabels

\* validateLocale(locale): the keys of enLabels for which labels[key] is falsy.
validateLocale(locale) ==
    LET labels  == getLabels(locale)
        Falsy(key) == key \notin DOMAIN labels \/ labels[key] = ""
        missing == SelectSeq(LabelKeys, Falsy)
    IN  [valid |-> Len(missing) = 0, missing |-> missing]

\* The label files are read with the Spanish set in any of its editions.
InitLabels ==
    /\ now = 0
    /\ pc = [i \in Requests |-> "idle"]
    /\ req = [i \in Requests |-> NoRequest]
    /\ resp = [i \in Requests |-> NoResponse]
    /\ translation \in EsLabelSets
    /\ validation = NoValidation

\* A call of validateLocale(locale).
CallValidateLocale(locale) ==
    /\ validation' = [locale  |-> locale,
                      valid   |-> validateLocale(locale).valid,
                      missing |-> validateLocale(locale).missing,
                      called  |-> TRUE]
    /\ UNCHANGED <<handlerVars, translation>>

NextLabels == \E locale \in Locales : CallValidateLocale(locale)

SpecLabels == InitLabels /\ [][NextLabels]_vars

(***************************************************************************)
(* Vocabulary of the properties.                                           *)
(***************************************************************************)
Done(i) == pc[i] = "done"
Post(i) == Done(i) /\ req[i].method = "POST"

HasJson(r)  == r.body.kind = "json"
Fields(r)   == IF HasJson(r) THEN DOMAIN r.body.json ELSE {}
QuoteFields == {"premium", "quoteId", "calculatedAt"}
ErrorFields == {"error", "message"}

IsQuote(r) == QuoteFields \subseteq Fields(r)
IsError(r) == "error" \in Fields(r)
ErrorOf(r) == IF IsError(r) THEN r.body.json.error ELSE ""

Rejected(r, error) == r.status = 400 /\ ErrorOf(r) = error

AbsentOrString(v) == v.t \in {"undefined", "string"}
AbsentOrEmpty(v)  == v = Undefined \/ v = JStr(<<>>)

\* The four checks, as the specification words them.
PresenceFails(b) ==
    b.revenue = Undefined \/ AbsentOrEmpty(b.state) \/ AbsentOrEmpty(b.business)
RevenueFails(b) == b.revenue.t # "number" \/ b.revenue.n < 0
StateFails(b) == b.state.t # "string" \/ ToUpperCase(b.state.s) \notin validStates
BusinessFails(b) ==
    b.business.t # "string" \/ ToLowerCase(b.business.s) \notin validBusinessTypes

FailingChecks(b) ==
    {c \in {"presence", "revenue", "state", "business"} :
        \/ c = "presence" /\ PresenceFails(b)
        \/ c = "revenue"  /\ RevenueFails(b)
        \/ c = "state"    /\ StateFails(b)
        \/ c = "business" /\ BusinessFails(b)}

EarliestError(b) ==
    IF PresenceFails(b) THEN "Missing required fields"
    ELSE IF RevenueFails(b) THEN "Invalid revenue"
    ELSE IF StateFails(b) THEN "Invalid state"
    ELSE "Invalid business type"

\* C1: for a POST whose body is an object with state and business absent or
\* strings, when more than one of the four checks fails the error reported is
\* that of the earliest failing check (presence, revenue, state, business).
C1_EarliestFailingCheckReported ==
    \A i \in Requests :
        (/\ Post(i)
         /\ req[i].body.t = "object"
         /\ AbsentOrString(req[i].body.state)
         /\ AbsentOrString(req[i].body.business)
         /\ Cardinality(FailingChecks(req[i].body)) > 1)
        => Rejected(resp[i], EarliestError(req[i].body))

\* Negative revenue with an unknown state and an unknown business type has
\* been answered 'Invalid revenue'.
C1_Witness ==
    \E i \in Requests :
        /\ Post(i)
        /\ req[i].body = JObj(JNum(-5000), JStr(<<"Z","Z">>), JStr(Technology))
        /\ Rejected(resp[i], "Invalid revenue")

\* C2 as claimed: every request, whatever its method, is answered with a body
\* that is a quote or an error, never both and never neither.
C2_EveryResponseQuoteOrError ==
    \A i \in Requests :
        Done(i) => /\ IsQuote(resp[i]) \/ IsError(resp[i])
                   /\ Fields(resp[i]) \cap QuoteFields = {}
                        \/ Fields(resp[i]) \cap ErrorFields = {}

\* C2 amended: every request whose method is not OPTIONS is answered with a
\* body that is a quote or an error, never both and never neither; an OPTIONS
\* request is answered with status 200 and no body.
C2_NonPreflightQuoteOrError ==
    \A i \in Requests :
        Done(i) =>
            IF req[i].method = "OPTIONS"
            THEN resp[i].status = 200 /\ resp[i].body.kind = "null"
            ELSE /\ IsQuote(resp[i]) \/ IsError(resp[i])
                 /\ Fields(resp[i]) \cap QuoteFields = {}
                      \/ Fields(resp[i]) \cap ErrorFields = {}

\* A POST has been answered with a quote and a GET or PUT with an error.
C2_Witness ==
    \E i, j \in Requests :
        /\ Post(i) /\ IsQuote(resp[i]) /\ ~IsError(resp[i])
        /\ Done(j) /\ req[j].method \in {"GET", "PUT"}
        /\ IsError(resp[j]) /\ ~IsQuote(resp[j])

ValidRequest(b) ==
    /\ b.t = "object"
    /\ b.revenue.t = "number" /\ b.revenue.n >= 0
    /\ b.state.t = "string" /\ ToUpperCase(b.state.s) \in {CA, TX, NY, WI, OH, IL, NV}
    /\ b.business.t = "string"
    /\ ToLowerCase(b.business.s) \in {Retail, Restaurant, Professional, Manufacturing}

\* C3: a POST is answered 200 exactly when its body is JSON with revenue a
\* number >= 0, state a string whose upper-case form is a valid state and
\* business a string whose lower-case form is a valid business type; and every
\* such 200 body carries premium, quoteId and calculatedAt.
C3_OkIffValid ==
    \A i \in Requests :
        Post(i) => /\ resp[i].status = 200 <=> ValidRequest(req[i].body)
                   /\ resp[i].status = 200 => IsQuote(resp[i])

\* A request with a lower-case state and an upper-case business type has been
\* answered 200 with a quote.
C3_Witness ==
    \E i \in Requests :
        /\ Post(i)
        /\ req[i].body = JObj(JNum(50000), JStr(ToLowerCase(CA)), JStr(ToUpperCase(Retail)))
        /\ resp[i].status = 200 /\ IsQuote(resp[i])

\* The multiplier tables in exact decimals: tenths and hundredths.
BusinessTenths ==
    (Retail :> 10) @@ (Restaurant :> 13) @@ (Professional :> 8) @@ (Manufacturing :> 15)
StateHundredths ==
    (CA :> 120) @@ (TX :> 100) @@ (NY :> 130) @@ (WI :> 90) @@ (OH :> 85) @@
    (IL :> 110) @@ (NV :> 115)

\* revenue x 0.025 x businessMultiplier x stateMultiplier in hundredths is
\* revenue x tenths x hundredths / 400; rounded half-up.
ExactPremium(b) ==
    (b.revenue.n * BusinessTenths[ToLowerCase(b.business.s)]
                 * StateHundredths[ToUpperCase(b.state.s)] + 200) \div 400

\* C4 as claimed: the premium of every valid request is revenue x 0.025 x
\* businessMultiplier x stateMultiplier rounded half-up to 2 decimal places.
C4_PremiumIsExactHalfUp ==
    \A i \in Requests :
        (Post(i) /\ resp[i].status = 200)
        => resp[i].body.json.premium = JNum(ExactPremium(req[i].body))

SameInputs(a, b) ==
    a.revenue = b.revenue /\ a.state = b.state /\ a.business = b.business

\* C5: two successful invocations with identical inputs return the same
\* premium, whatever the clock reading and the random draw of each.
C5_PremiumDeterministic ==
    \A i, j \in Requests :
        (/\ Post(i) /\ resp[i].status = 200
         /\ Post(j) /\ resp[j].status = 200
         /\ SameInputs(req[i].body, req[j].body))
        => resp[i].body.json.premium = resp[j].body.json.premium

\* Two quotes for identical inputs, computed with different clock readings or
\* random draws (their quoteIds differ).
C5_Witness ==
    \E i, j \in Requests :
        /\ i # j
        /\ Post(i) /\ resp[i].status = 200
        /\ Post(j) /\ resp[j].status = 200
        /\ SameInputs(req[i].body, req[j].body)
        /\ resp[i].body.json.quoteId # resp[j].body.json.quoteId
        /\ resp[i].body.json.calculatedAt # resp[j].body.json.calculatedAt

\* C6 as claimed: any two successful invocations return different quoteIds.
C6_QuoteIdsDistinct ==
    \A i, j \in Requests :
        (/\ i # j
         /\ Post(i) /\ resp[i].status = 200
         /\ Post(j) /\ resp[j].status = 200)
        => resp[i].body.json.quoteId # resp[j].body.json.quoteId

IsDigit(c)        == \E k \in 1..Len(DigitChars) : DigitChars[k] = c
IsUpperOrDigit(c) == IsDigit(c) \/ \E k \in Letters : UpperChars[k] = c

\* q matches ^Q-\d+-[A-Z0-9]+$ : k is the position of the last digit of \d+.
MatchesQuoteIdPattern(q) ==
    \E k \in 3..Len(q) :
        /\ q[1] = "Q" /\ q[2] = "-"
        /\ \A j \in 3..k : IsDigit(q[j])
        /\ k + 2 <= Len(q)
        /\ q[k + 1] = "-"
        /\ \A j \in (k + 2)..Len(q) : IsUpperOrDigit(q[j])

\* C7 as claimed: the quoteId of every success response matches
\* ^Q-\d+-[A-Z0-9]+$, for every clock reading and random draw.
C7_QuoteIdMatchesPattern ==
    \A i \in Requests :
        (Post(i) /\ resp[i].status = 200)
        => MatchesQuoteIdPattern(resp[i].body.json.quoteId)

\* What follows the last hyphen of q.
Suffix(q) ==
    LET last == CHOOSE k \in 1..Len(q) :
                    q[k] = "-" /\ \A j \in (k + 1)..Len(q) : q[j] # "-"
    IN  SubSeq(q, last + 1, Len(q))

\* C8 as claimed: the random suffix of every quoteId is exactly 5 characters
\* long, for every value the random source returns.
C8_SuffixHasFiveCharacters ==
    \A i \in Requests :
        (Post(i) /\ resp[i].status = 200)
        => Len(Suffix(resp[i].body.json.quoteId)) = 5

\* C9: a POST with an object body in which revenue is absent, or state is
\* absent or empty, or business is absent or empty, is rejected with 400
\* 'Missing required fields' whatever the other fields hold; and a revenue of
\* 0 with state and business present is never reported as missing.
C9_MissingFieldsRejected ==
    \A i \in Requests :
        (Post(i) /\ req[i].body.t = "object")
        => /\ PresenceFails(req[i].body)
                => Rejected(resp[i], "Missing required fields")
           /\ (/\ req[i].body.revenue = JNum(0)
               /\ Truthy(req[i].body.state)
               /\ Truthy(req[i].body.business))
                => ErrorOf(resp[i]) # "Missing required fields"

\* A request without revenue, with a numeric state and an unknown business
\* type, has been answered 'Missing required fields'.
C9_Witness ==
    \E i \in Requests :
        /\ Post(i)
        /\ req[i].body = JObj(Undefined, JNum(123), JStr(Technology))
        /\ Rejected(resp[i], "Missing required fields")

\* C10: a POST that passes the presence check and whose revenue is not of
\* numeric type (a numeric-looking string included) or is negative is
\* rejected with 400 'Invalid revenue', whatever state and business hold.
C10_InvalidRevenueRejected ==
    \A i \in Requests :
        (/\ Post(i)
         /\ req[i].body.t = "object"
         /\ req[i].body.revenue # Undefined
         /\ Truthy(req[i].body.state)
         /\ Truthy(req[i].body.business)
         /\ RevenueFails(req[i].body))
        => Rejected(resp[i], "Invalid revenue")

\* The numeric-looking string "50000" as revenue, with a numeric state, has
\* been answered 'Invalid revenue'.
C10_Witness ==
    \E i \in Requests :
        /\ Post(i)
        /\ req[i].body = JObj(JStr(Fifty), JNum(123), JStr(Retail))
        /\ Rejected(resp[i], "Invalid revenue")

NonEmptyString(v) == v.t = "string" /\ v.s # <<>>

\* C11: a POST whose body has revenue null and state and business non-empty
\* strings is rejected with 400 'Invalid revenue', never 'Missing required
\* fields'.
C11_NullRevenueIsInvalidRevenue ==
    \A i \in Requests :
        (/\ Post(i)
         /\ req[i].body.t = "object"
         /\ req[i].body.revenue = JNull
         /\ NonEmptyString(req[i].body.state)
         /\ NonEmptyString(req[i].body.business))
        => /\ Rejected(resp[i], "Invalid revenue")
           /\ ErrorOf(resp[i]) # "Missing required fields"

\* {revenue: null, state: "CA", business: "retail"} has been answered
\* 'Invalid revenue'.
C11_Witness ==
    \E i \in Requests :
        /\ Post(i)
        /\ req[i].body = JObj(JNull, JStr(CA), JStr(Retail))
        /\ Rejected(resp[i], "Invalid revenue")

PassesPresence(b) ==
    b.t = "object" /\ b.revenue # Undefined /\ Truthy(b.state) /\ Truthy(b.business)

\* C12: a POST that passes the presence and revenue checks and whose state is
\* a string whose upper-case form is not a valid state is rejected with 400
\* 'Invalid state', whatever business holds.
C12_InvalidStateRejected ==
    \A i \in Requests :
        (/\ Post(i)
         /\ PassesPresence(req[i].body)
         /\ ~RevenueFails(req[i].body)
         /\ req[i].body.state.t = "string"
         /\ ToUpperCase(req[i].body.state.s) \notin {CA, TX, NY, WI, OH, IL, NV})
        => Rejected(resp[i], "Invalid state")

\* State 'California' with a business that is a number has been answered
\* 'Invalid state'.
C12_Witness ==
    \E i \in Requests :
        /\ Post(i)
        /\ req[i].body = JObj(JNum(50000), JStr(California), JNum(123))
        /\ Rejected(resp[i], "Invalid state")

\* C13: a POST that passes the presence, revenue and state checks and whose
\* business is a string whose lower-case form is not a valid business type is
\* rejected with 400 'Invalid business type'.
C13_InvalidBusinessRejected ==
    \A i \in Requests :
        (/\ Post(i)
         /\ PassesPresence(req[i].body)
         /\ ~RevenueFails(req[i].body)
         /\ ~StateFails(req[i].body)
         /\ req[i].body.business.t = "string"
         /\ ToLowerCase(req[i].body.business.s)
                \notin {Retail, Restaurant, Professional, Manufacturing})
        => Rejected(resp[i], "Invalid business type")

\* Business 'technology' with a valid lower-case state has been answered
\* 'Invalid business type'.
C13_Witness ==
    \E i \in Requests :
        /\ Post(i)
        /\ req[i].body = JObj(JNum(50000), JStr(ToLowerCase(CA)), JStr(Technology))
        /\ Rejected(resp[i], "Invalid business type")

SameLetterInputs(a, b) ==
    /\ a.revenue = b.revenue
    /\ SameLetters(a.state.s, b.state.s)
    /\ SameLetters(a.business.s, b.business.s)

\* C14 as claimed: two POSTs whose bodies differ only in the case of the
\* letters of state and business (the same letters, each in either case) are
\* answered with the same status and the same error, and on success with the
\* same premium.
C14_CaseInsensitive ==
    \A i, j \in Requests :
        (/\ Post(i) /\ Post(j)
         /\ SameLetterInputs(req[i].body, req[j].body))
        => /\ resp[i].status = resp[j].status
           /\ ErrorOf(resp[i]) = ErrorOf(resp[j])
           /\ resp[i].status = 200
                => resp[i].body.json.premium = resp[j].body.json.premium

\* C15 as claimed: every request whose method is not POST is answered with
\* status 405 and a body, whatever its payload.
C15_NonPostIs405 ==
    \A i \in Requests :
        (Done(i) /\ req[i].method # "POST")
        => resp[i].status = 405 /\ resp[i].body.kind # "null"

\* C15 amended: every request whose method is neither POST nor OPTIONS is
\* answered with status 405 and a body, whatever its payload and without the
\* payload being read; an OPTIONS request is answered 200 with no body.
C15_NonPostNonPreflightIs405 ==
    \A i \in Requests :
        /\ (Done(i) /\ req[i].method \notin {"POST", "OPTIONS"})
            => resp[i].status = 405 /\ resp[i].body.kind # "null"
        /\ (Done(i) /\ req[i].method = "OPTIONS")
            => resp[i].status = 200 /\ resp[i].body.kind = "null"
        /\ pc[i] = "reading" => req[i].method = "POST"

\* A PUT with an unparsable payload and a GET with a valid payload have both
\* been answered 405 with a body.
C15_Witness ==
    \E i, j \in Requests :
        /\ Done(i) /\ req[i].method = "PUT" /\ req[i].body = Unparsable
        /\ resp[i].status = 405 /\ HasJson(resp[i])
        /\ Done(j) /\ req[j].method = "GET"
        /\ req[j].body = JObj(JNum(50000), JStr(CA), JStr(Retail))
        /\ resp[j].status = 405 /\ HasJson(resp[j])

FieldErrors ==
    {"Missing required fields", "Invalid revenue", "Invalid state", "Invalid business type"}

\* C16: a POST whose body cannot be parsed as JSON is answered with status 400
\* and error 'Invalid JSON'; none of the four field validations is reported.
C16_UnparsableIsInvalidJson ==
    \A i \in Requests :
        (Post(i) /\ req[i].body = Unparsable)
        => /\ Rejected(resp[i], "Invalid JSON")
           /\ ErrorOf(resp[i]) \notin FieldErrors

\* An unparsable POST has been answered 400 'Invalid JSON'.
C16_Witness ==
    \E i \in Requests :
        /\ Post(i) /\ req[i].body = Unparsable
        /\ resp[i].status = 400 /\ ErrorOf(resp[i]) = "Invalid JSON"

\* C17 as claimed: every response with status 400 or 405 has a body with an
\* error field and a message field, each a non-empty string.
C17_ErrorsCarryErrorAndMessage ==
    \A i \in Requests :
        (Done(i) /\ resp[i].status \in {400, 405})
        => /\ {"error", "message"} \subseteq Fields(resp[i])
           /\ resp[i].body.json.error # ""
           /\ resp[i].body.json.message # ""

ErrorCategories == FieldErrors \cup {"Invalid JSON", "Method not allowed"}

\* C18: every response whose status is not 200 carries an error that is one
\* of the six fixed strings, with status 405 exactly when the error is
\* 'Method not allowed' and 400 otherwise; and no request is answered with a
\* status other than 200, 400 or 405.
C18_SixErrorCategories ==
    \A i \in Requests :
        Done(i) =>
            /\ resp[i].status \in {200, 400, 405}
            /\ resp[i].status # 200 =>
                /\ ErrorOf(resp[i]) \in ErrorCategories
                /\ resp[i].status = 405 <=> ErrorOf(resp[i]) = "Method not allowed"
                /\ ErrorOf(resp[i]) # "Method not allowed" => resp[i].status = 400

\* A POST whose state is a number has been answered 400 'Invalid JSON': the
\* error raised inside the state check reaches the catch block.
C18_Witness ==
    \E i \in Requests :
        /\ Post(i)
        /\ req[i].body = JObj(JNum(50000), JNum(123), JStr(Retail))
        /\ resp[i].status = 400 /\ ErrorOf(resp[i]) = "Invalid JSON"

\* C19: a POST with revenue 0, a valid state and a valid business type is
\* answered 200 with a quote whose premium is exactly 0.
C19_ZeroRevenueZeroPremium ==
    \A i \in Requests :
        (/\ Post(i)
         /\ ValidRequest(req[i].body)
         /\ req[i].body.revenue.n = 0)
        => /\ resp[i].status = 200
           /\ IsQuote(resp[i]) /\ ~IsError(resp[i])
           /\ resp[i].body.json.premium = JNum(0)

\* Revenue 0 in NY for a manufacturer has been answered 200 with premium 0.
C19_Witness ==
    \E i \in Requests :
        /\ Post(i)
        /\ req[i].body = JObj(JNum(0), JStr(NY), JStr(Manufacturing))
        /\ resp[i].status = 200
        /\ resp[i].body.json.premium = JNum(0)

\* p > q for two premiums as a client compares them: both must be numbers.
Greater(p, q) == p.t = "number" /\ q.t = "number" /\ p.n > q.n

\* Invocations i and j have priced the same revenue and business type, i in
\* state hi and j in state lo.
PricedIn(i, j, hi, lo) ==
    /\ i # j
    /\ Post(i) /\ resp[i].status = 200
    /\ Post(j) /\ resp[j].status = 200
    /\ req[i].body.revenue = req[j].body.revenue
    /\ req[i].body.business = req[j].body.business
    /\ ToUpperCase(req[i].body.state.s) = hi
    /\ ToUpperCase(req[j].body.state.s) = lo

\* C20: for every valid revenue and business type, the premium for state NY
\* is strictly greater than the premium for state OH.
C20_NewYorkAboveOhio ==
    \A i, j \in Requests :
        PricedIn(i, j, NY, OH)
        => Greater(resp[i].body.json.premium, resp[j].body.json.premium)

\* Invocations i and j have priced the same revenue in the same state, i for
\* business type hi and j for business type lo.
PricedFor(i, j, hi, lo) ==
    /\ i # j
    /\ Post(i) /\ resp[i].status = 200
    /\ Post(j) /\ resp[j].status = 200
    /\ req[i].body.revenue = req[j].body.revenue
    /\ req[i].body.state = req[j].body.state
    /\ ToLowerCase(req[i].body.business.s) = hi
    /\ ToLowerCase(req[j].body.business.s) = lo

\* C21: for every valid revenue and state, the premium for business type
\* manufacturing is strictly greater than the premium for business type
\* professional.
C21_ManufacturingAboveProfessional ==
    \A i, j \in Requests :
        PricedFor(i, j, Manufacturing, Professional)
        => Greater(resp[i].body.json.premium, resp[j].body.json.premium)

\* Invocation i has priced revenue r1 and invocation j revenue r2, for the
\* same state and business type.
PricedAt(i, j) ==
    /\ i # j
    /\ Post(i) /\ resp[i].status = 200
    /\ Post(j) /\ resp[j].status = 200
    /\ req[i].body.state = req[j].body.state
    /\ req[i].body.business = req[j].body.business

\* b = 2 * a for two JSON numbers n * 2^e.
Twice(a, b) ==
    \/ a.e = b.e /\ b.n = 2 * a.n
    \/ b.e = a.e + 1 /\ b.n = a.n

\* |p - 2 * q| <= 0.01 for two premiums (in hundredths), both of them numbers.
DoubledWithinOneCent(p, q) ==
    /\ p.t = "number" /\ q.t = "number"
    /\ p.n - 2 * q.n <= 1
    /\ 2 * q.n - p.n <= 1

\* C22 as claimed: for every valid state and business and every revenue
\* r >= 0, premium(2r) differs from 2 x premium(r) by at most 0.01.
C22_DoublingDoublesPremium ==
    \A i, j \in Requests :
        (PricedAt(i, j) /\ Twice(req[i].body.revenue, req[j].body.revenue))
        => DoubledWithinOneCent(resp[j].body.json.premium, resp[i].body.json.premium)

\* A JSON number that is a finite whole number >= 0 (every finite number of
\* the model is whole).
WholeNumber(v) == v.t = "number" /\ v.n >= 0 /\ ~IsInfinite(NumberDouble(v))

\* C23 as claimed: for every valid state and business and any two
\* whole-number revenues 0 <= r1 < r2, premium(r2) is strictly greater than
\* premium(r1).
C23_HigherRevenueHigherPremium ==
    \A i, j \in Requests :
        (/\ PricedAt(i, j)
         /\ WholeNumber(req[i].body.revenue)
         /\ WholeNumber(req[j].body.revenue)
         /\ NumLess(req[i].body.revenue, req[j].body.revenue))
        => Greater(resp[j].body.json.premium, resp[i].body.json.premium)

\* C24: a POST with a valid revenue and business whose state is present but
\* not a string is answered with status 400, never with 200.
C24_NonStringStateRejected ==
    \A i \in Requests :
        (/\ Post(i)
         /\ req[i].body.t = "object"
         /\ req[i].body.revenue.t = "number" /\ req[i].body.revenue.n >= 0
         /\ ~BusinessFails(req[i].body)
         /\ req[i].body.state.t \notin {"undefined", "string"})
        => resp[i].status = 400 /\ ~IsQuote(resp[i])

\* State 123 and state ["CA"], each with a valid revenue and business, have
\* been answered 400.
C24_Witness ==
    \E i \in Requests :
        /\ Post(i)
        /\ req[i].body \in {JObj(JNum(50000), JNum(123), JStr(Retail)),
                            JObj(JNum(50000), JArr(<<JStr(CA)>>), JStr(Retail))}
        /\ resp[i].status = 400

\* C25 as claimed: in every success response the premium is a number >= 0
\* that is a whole number of cents, for every revenue the revenue check
\* accepts.
C25_PremiumIsNonNegativeNumber ==
    \A i \in Requests :
        (Post(i) /\ resp[i].status = 200)
        => /\ resp[i].body.json.premium.t = "number"
           /\ resp[i].body.json.premium.n >= 0

\* What a client sees of a response besides quoteId and calculatedAt.
Outcome(r) ==
    [status  |-> r.status,
     error   |-> ErrorOf(r),
     premium |-> IF IsQuote(r) THEN r.body.json.premium ELSE JNull]

\* The outcome of each body when its request is handled alone, on a fresh
\* handler.
AloneOutcome == [body \in Bodies |-> Outcome(AfterBody(body, 0, 0, 0))]

\* The responses each body can get when its request is handled alone: one for
\* each pair of clock readings and each draw.
AloneResponses ==
    [body \in Bodies |->
        {AfterBody(body, t, u, r) : t \in 0..MaxClock, u \in 0..MaxClock, r \in RandomDraws}]

\* A response without what the clock and the random source put into it.
WithoutClockAndDraw(r) ==
    IF IsQuote(r)
    THEN [r EXCEPT !.body.json.quoteId = <<>>, !.body.json.calculatedAt = <<>>]
    ELSE r

\* Invocations i and j have both answered a POST with the same body.
SameRequest(i, j) == Post(i) /\ Post(j) /\ req[i].body = req[j].body

\* C26 as claimed: whatever the interleaving of the invocations in flight, the
\* status, error category and premium of every answered POST are those of the
\* same request handled alone, and no invocation reads state that outlives it
\* or is shared with another one: a response is determined by its request, so
\* two invocations given the same request return the same response.
C26_NoSharedState ==
    /\ \A i \in Requests :
          Post(i) => /\ req[i].body \in DOMAIN AloneOutcome
                     /\ Outcome(resp[i]) = AloneOutcome[req[i].body]
    /\ \A i, j \in Requests : SameRequest(i, j) => resp[i] = resp[j]

\* C26 amended: whatever the interleaving of the invocations in flight, the
\* status, error category and premium of every answered POST are those of the
\* same request handled alone; a response is determined by its request, the
\* clock readings and the random draw, and of these the clock and the random
\* source, which are shared and outlive the invocation, determine only
\* quoteId and calculatedAt.
C26_IndependentButForClockAndDraw ==
    /\ \A i \in Requests :
          Post(i) => /\ req[i].body \in DOMAIN AloneOutcome
                     /\ Outcome(resp[i]) = AloneOutcome[req[i].body]
                     /\ resp[i] \in AloneResponses[req[i].body]
    /\ \A i, j \in Requests :
          SameRequest(i, j) => WithoutClockAndDraw(resp[i]) = WithoutClockAndDraw(resp[j])

\* Invocation 2 began while invocation 1 was suspended reading its body, and
\* both have been answered: invocation 1 with a quote, invocation 2, whose
\* body is unparsable, with Invalid JSON.
C26_Witness ==
    /\ Post(1) /\ Post(2)
    /\ req[1].body = JObj(JNum(50000), JStr(CA), JStr(Retail))
    /\ resp[1].status = 200
    /\ resp[1].body.json.premium = JNum(150000)
    /\ req[2].body = Unparsable
    /\ resp[2].status = 400
    /\ ErrorOf(resp[2]) = "Invalid JSON"

\* C27: every response, on every path (preflight, 405, each 400 error, 200
\* success), carries the header Access-Control-Allow-Origin: *.
C27_EveryResponseAllowsAnyOrigin ==
    \A i \in Requests :
        Done(i) => /\ "Access-Control-Allow-Origin" \in DOMAIN resp[i].headers
                   /\ resp[i].headers["Access-Control-Allow-Origin"] = "*"

\* A preflight has been answered with the origin header next to the two other
\* CORS headers.
C27_Witness ==
    \E i \in Requests :
        /\ Done(i) /\ req[i].method = "OPTIONS"
        /\ DOMAIN resp[i].headers =
             {"Access-Control-Allow-Origin", "Access-Control-Allow-Methods",
              "Access-Control-Allow-Headers"}
        /\ resp[i].headers["Access-Control-Allow-Origin"] = "*"

\* C28 as claimed: a POST whose body parses as JSON is never answered with
\* error 'Invalid JSON', but with a quote or with one of the four
\* field-validation errors.
C28_InvalidJsonOnlyForParseFailure ==
    \A i \in Requests :
        (Post(i) /\ req[i].body # Unparsable)
        => /\ ErrorOf(resp[i]) # "Invalid JSON"
           /\ IsQuote(resp[i]) \/ ErrorOf(resp[i]) \in FieldErrors

\* C29: the states validation accepts are the keys of the state multiplier
\* table and the business types it accepts are the keys of the business
\* multiplier table, so every quote was priced with both multipliers defined.
C29_MultipliersDefined ==
    /\ validStates = DOMAIN stateMultipliers
    /\ validBusinessTypes = DOMAIN businessMultipliers
    /\ \A i \in Requests :
        (Post(i) /\ resp[i].status = 200)
        => /\ ToUpperCase(req[i].body.state.s) \in DOMAIN stateMultipliers
           /\ ToLowerCase(req[i].body.business.s) \in DOMAIN businessMultipliers

\* A quote for state 'nv' and business 'RESTAURANT' has been priced from the
\* multipliers of NV and restaurant.
C29_Witness ==
    \E i \in Requests :
        /\ Post(i) /\ resp[i].status = 200
        /\ req[i].body = JObj(JNum(50000), JStr(ToLowerCase(NV)), JStr(ToUpperCase(Restaurant)))
        /\ resp[i].body.json.premium.t = "number"

\* The locale has a label set of its own, and that set holds a non-empty value
\* for every key of the English labels.
OwnLabelsComplete(locale) ==
    LET l == IF locale = Undefined THEN <<"e","n">> ELSE ToLowerCase(locale.s)
        complete(labels) ==
            \A key \in DOMAIN enLabels : key \in DOMAIN labels /\ labels[key] # ""
    IN  \/ l = <<"e","n">> /\ complete(enLabels)
        \/ l = <<"e","s">> /\ complete(translation)

\* C30 as claimed: validateLocale reports valid: true, with nothing missing,
\* only for a locale that has its own complete label set; for 'en' and 'es'
\* with the label files as they are it does; for a locale without its own
\* label set it does not.
C30_ValidOnlyForOwnCompleteLabels ==
    validation.called =>
        /\ validation.valid <=> OwnLabelsComplete(validation.locale)
        /\ validation.valid <=> validation.missing = <<>>
====
